---------------------------- MODULE Spec2Model ----------------------------
(***************************************************************************)
(* A model of the boyle utilities: the settings loader (utils/rcfile.py),  *)
(* the mask operations (nifti/mask.py), the HTCondor submission shim       *)
(* (commands.py) and the export dispatcher (storage.py).                   *)
(*                                                                         *)
(* Each component is a small state machine of its own: its inputs are      *)
(* drawn in its Init, one action per function runs the function's code on  *)
(* them, and the outcome (a returned value or a raised exception) is kept  *)
(* in the state.  There is one specification per component: SpecRc,        *)
(* SpecMask, SpecCondor and SpecExport.                                    *)
(*                                                                         *)
(* Python strings that the code takes apart (dict keys, environment        *)
(* variable names, file extensions) are sequences of one-character         *)
(* strings; Python values are records [t |-> type, v |-> text].            *)
(***************************************************************************)
EXTENDS Integers, Sequences, FiniteSets, TLC

VARIABLES
    \* ---- utils/rcfile.py
    rc_pc,        \* "start" | "done"
    rc_op,        \* the function called: "rcfile" | "find_in_sections"
    rc_var,       \* the var_name argument of find_in_sections
    rc_strip,     \* the strip_dashes argument
    rc_section,   \* the section argument
    rc_args,      \* the args dict (mutated in place by the strip loop)
    rc_parsed,    \* what config.read(files) holds: section name -> dict
    rc_osenv,     \* os.environ: variable name -> value
    rc_out,       \* the outcome of rcfile
    \* ---- nifti/mask.py
    mk_pc,        \* "start" | "done"
    mk_op,        \* the operation that ran
    mk_imgs,      \* the image arguments, in call order (the file list)
    mk_mask,      \* the mask image argument
    mk_allow,     \* the allow_empty argument: "default" | "true" | "false"
    mk_reads,     \* the voxel arrays read so far, in order of the reads
    mk_out,       \* the outcome of the operation
    \* ---- commands.py
    cd_pc,        \* position inside condor_call / condor_submit
    cd_env,       \* the arguments of condor_call: cmd and shell
    cd_log,       \* the subprocess calls issued so far, with their results
    cd_out,       \* the outcome of condor_call
    \* ---- storage.py
    ex_pc,        \* "start" | "done"
    ex_file,      \* the filename argument: [stem, ext]
    ex_calls,     \* the serializer calls issued: <<serializer, path>>
    ex_log,       \* the error messages logged
    ex_out,       \* the outcome of save_variables
    \* ---- utils/rcfile.py: the reading of the config files
    cf_pc,        \* "start" | "done"
    cf_in,        \* config_file, additional_search_path and the files on disk
    cf_out,       \* the files get_config asked for and what the parser holds
    \* ---- utils/rcfile.py: merge on its own
    mg_pc,        \* "start" | "done"
    mg_in,        \* the arguments dict_1 and dict_2
    mg_out        \* the dict merge returned

rcVars == <<rc_pc, rc_op, rc_var, rc_strip, rc_section, rc_args, rc_parsed, rc_osenv, rc_out>>
mkVars == <<mk_pc, mk_op, mk_imgs, mk_mask, mk_allow, mk_reads, mk_out>>
cdVars == <<cd_pc, cd_env, cd_log, cd_out>>
exVars == <<ex_pc, ex_file, ex_calls, ex_log, ex_out>>
cfVars == <<cf_pc, cf_in, cf_out>>
mgVars == <<mg_pc, mg_in, mg_out>>
vars   == <<rcVars, mkVars, cdVars, exVars, cfVars, mgVars>>

(***************************************************************************)
(* Python values and their truth value.                                    *)
(***************************************************************************)
None    == [t |-> "NoneType", v |-> <<>>]
PyFalse == [t |-> "bool", v |-> <<"False">>]
PyTrue  == [t |-> "bool", v |-> <<"True">>]
Str(s)  == [t |-> "str", v |-> s]

\* bool(x): None, False and the empty string are falsy.
Truthy(x) ==
    CASE x.t = "NoneType" -> FALSE
      [] x.t = "bool"     -> x = PyTrue
      [] x.t = "str"      -> x.v # <<>>

\* Python's `a or b`.
PyOr(a, b) == IF Truthy(a) THEN a ELSE b

\* dict.get(key): None when the key is absent.
Get(d, k) == IF k \in DOMAIN d THEN d[k] ELSE None

EmptyDict == [k \in {} |-> None]

(***************************************************************************)
(* String operations on sequences of characters.                           *)
(***************************************************************************)
\* The letters the modelled strings use, capital and small.
Capitals == <<"A", "C", "D", "E", "F", "H", "L", "M", "P", "Q", "S", "T", "X", "Y">>
Smalls   == <<"a", "c", "d", "e", "f", "h", "l", "m", "p", "q", "s", "t", "x", "y">>

\* str.lower and str.upper on one character: only letters change.
LowerChar(c) ==
    IF \E i \in 1..Len(Capitals) : Capitals[i] = c
    THEN Smalls[CHOOSE i \in 1..Len(Capitals) : Capitals[i] = c]
    ELSE c

UpperChar(c) ==
    IF \E i \in 1..Len(Smalls) : Smalls[i] = c
    THEN Capitals[CHOOSE i \in 1..Len(Smalls) : Smalls[i] = c]
    ELSE c

Lower(s) == [i \in 1..Len(s) |-> LowerChar(s[i])]
Upper(s) == [i \in 1..Len(s) |-> UpperChar(s[i])]

StartsWith(s, p) == Len(p) <= Len(s) /\ SubSeq(s, 1, Len(p)) = p

\* str.lstrip('-'): every leading '-' is removed.
RECURSIVE LStripDash(_)
LStripDash(s) ==
    IF s # <<>> /\ Head(s) = "-" THEN LStripDash(Tail(s)) ELSE s

\* str.replace(old, ''): every non-overlapping occurrence, left to right.
RECURSIVE RemoveAll(_, _)
RemoveAll(s, old) ==
    IF s = <<>> THEN <<>>
    ELSE IF old # <<>> /\ StartsWith(s, old)
         THEN RemoveAll(SubSeq(s, Len(old) + 1, Len(s)), old)
         ELSE <<Head(s)>> \o RemoveAll(Tail(s), old)

(***************************************************************************)
(* utils/rcfile.py                                                         *)
(***************************************************************************)
\* The application whose settings are read, and socket.gethostname().
Appname  == <<"p">>
Hostname == <<"h">>

\* Most entries a generated args dict or os.environ holds.
MaxArgs == 2
MaxEnv  == 2

ArgKeys  == {<<"a">>, <<"-", "a">>, <<"c">>}
ArgVals  == {None, Str(<<>>), Str(<<"x">>)}
CfgKeys  == {<<"a">>, <<"c">>}
CfgVals  == {Str(<<>>), Str(<<"g">>)}
HostKeys == {<<"a">>}
HostVals == {Str(<<>>), Str(<<"h">>)}
EnvNames == {<<"P", "_", "A">>, <<"Q", "_", "A">>, <<"P", "_", "P", "_", "A">>}
EnvVals  == {Str(<<>>), Str(<<"e">>)}

\* Every dict with at most n keys of K and values of V.
Dicts(K, V, n) ==
    UNION {[S -> V] : S \in {T \in SUBSET K : Cardinality(T) <= n}}

GenericSection == Appname
HostSection    == Appname \o <<":">> \o Hostname

\* The parser states config.read(files) can leave: section name -> items,
\* with the generic section and the host-specific section each present or not.
ParsedConfigs ==
    {[s \in S |-> IF s = GenericSection THEN g ELSE h] :
        S \in SUBSET {GenericSection, HostSection},
        g \in Dicts(CfgKeys, CfgVals, Cardinality(CfgKeys)),
        h \in Dicts(HostKeys, HostVals, Cardinality(HostKeys))}

has_section(parsed, section) == section \in DOMAIN parsed

\* merge with the precedence of its arguments exchanged.
merge_swapped(dict_1, dict_2) ==
    [key \in DOMAIN dict_2 \cup DOMAIN dict_1 |->
        PyOr(Get(dict_2, key), Get(dict_1, key))]

\* merge: str(key) -> dict_1.get(key) or dict_2.get(key), over both key
\* sets.  Keys are strings, which str() returns as they are.
merge(dict_1, dict_2) ==
    [key \in DOMAIN dict_2 \cup DOMAIN dict_1 |->
        PyOr(Get(dict_1, key), Get(dict_2, key))]

\* get_environment: the variables whose name starts with APPNAME_, keyed by
\* the name with every occurrence of the prefix removed, lower-cased.  Two
\* variables can land on one key; dict() keeps the one os.environ yields
\* last, so every choice among them is a possible result.
EnvPrefix(appname) == Upper(appname) \o <<"_">>

EnvKey(name, appname) == Lower(RemoveAll(name, EnvPrefix(appname)))

get_environment(appname, osenv) ==
    LET names == {n \in DOMAIN osenv : StartsWith(n, EnvPrefix(appname))}
        keys  == {EnvKey(n, appname) : n \in names}
    IN  {d \in [keys -> {osenv[n] : n \in names}] :
            \A k \in keys : \E n \in names : EnvKey(n, appname) = k /\ d[k] = osenv[n]}

\* get_config with the generic section's items merged over the
\* host-specific section's.
get_config_generic_first(parsed, section) ==
    LET cfg_items    == IF has_section(parsed, section) THEN parsed[section]
                        ELSE EmptyDict
        host_section == section \o <<":">> \o Hostname
    IN  IF has_section(parsed, host_section)
        THEN merge(cfg_items, parsed[host_section])
        ELSE cfg_items

\* get_config: the section's items, with the host-specific section's items
\* merged over them when that section exists.
get_config(parsed, section) ==
    LET cfg_items    == IF has_section(parsed, section) THEN parsed[section]
                        ELSE EmptyDict
        host_section == section \o <<":">> \o Hostname
    IN  IF has_section(parsed, host_section)
        THEN merge(parsed[host_section], cfg_items)
        ELSE cfg_items

\* One turn of the strip loop: args[k.lstrip('-')] = args.pop(k).
StripStep(args, k) ==
    LET v  == args[k]
        nk == LStripDash(k)
    IN  [x \in (DOMAIN args \ {k}) \cup {nk} |-> IF x = nk THEN v ELSE args[x]]

\* The loop over the first n keys of an order of the keys.
RECURSIVE StripLoop(_, _, _)
StripLoop(args, order, n) ==
    IF n = 0 THEN args
    ELSE LET before == StripLoop(args, order, n - 1)
         IN  IF order[n] \in DOMAIN before THEN StripStep(before, order[n])
             ELSE before

Orders(S) ==
    {o \in [1..Cardinality(S) -> S] : \A i, j \in 1..Cardinality(S) : o[i] = o[j] => i = j}

\* `for k in args.keys(): args[k.lstrip('-')] = args.pop(k)`.  Where keys()
\* is a list (Python 2) the loop visits every key once, in the dict's order.
\* Where keys() is a view (Python 3) the dict changes under the iteration:
\* the interpreter may finish the loop or raise RuntimeError part-way, with
\* args left as the turns taken so far made it.
StripOutcomes(args, strip_dashes) ==
    IF ~strip_dashes \/ DOMAIN args = {}
    THEN {[raised |-> FALSE, args |-> args]}
    ELSE {[raised |-> FALSE, args |-> StripLoop(args, o, Len(o))] :
              o \in Orders(DOMAIN args)}
         \cup
         {[raised |-> TRUE, args |-> StripLoop(args, o, n)] :
              o \in Orders(DOMAIN args), n \in 1..Cardinality(DOMAIN args)}

\* rcfile, after the strip loop: merge args over the config section over the
\* environment; an empty result raises IOError.
rcfile_merge(args, config, environ) ==
    LET merged == merge(merge(args, config), environ)
    IN  IF DOMAIN merged = {} THEN [kind |-> "IOError", value |-> EmptyDict]
        ELSE [kind |-> "return", value |-> merged]

\* rcfile(appname, section, args, strip_dashes).  The outcome keeps the
\* config and environ mappings the call computed beside its result.
RcFile ==
    /\ rc_pc = "start" /\ rc_op = "rcfile"
    /\ \E so \in StripOutcomes(rc_args, rc_strip) :
         /\ rc_args' = so.args
         /\ IF so.raised
            THEN rc_out' = [kind |-> "RuntimeError", value |-> EmptyDict,
                            config |-> EmptyDict, environ |-> EmptyDict]
            ELSE \E environ \in get_environment(Appname, rc_osenv) :
                   LET section == IF rc_section = None THEN Appname
                                  ELSE rc_section.v
                       config  == get_config(rc_parsed, section)
                       res     == rcfile_merge(so.args, config, environ)
                   IN  rc_out' = [kind |-> res.kind, value |-> res.value,
                                  config |-> config, environ |-> environ]
    /\ rc_pc' = "done"
    /\ UNCHANGED <<rc_op, rc_var, rc_strip, rc_section, rc_parsed, rc_osenv>>
    /\ UNCHANGED <<mkVars, cdVars, exVars, cfVars, mgVars>>

\* get_rcfile_variable_value(var_name, app_name, section_name), lines
\* 263-299: rcfile(app_name, section_name) with the default args, which the
\* strip loop leaves empty; KeyError when the settings lack var_name.
get_rcfile_variable_value(var_name, parsed, environ, section_name) ==
    LET cfg == rcfile_merge(EmptyDict, get_config(parsed, section_name), environ)
    IN  IF cfg.kind # "return" THEN [kind |-> cfg.kind, value |-> None]
        ELSE IF var_name \notin DOMAIN cfg.value
             THEN [kind |-> "KeyError", value |-> None]
             ELSE [kind |-> "return", value |-> cfg.value[var_name]]

\* find_in_sections(var_name, app_name), lines 321-334, for the sections
\* get_sections returned: the first section whose lookup raises nothing.
find_in_sections(var_name, sections, parsed, environ) ==
    LET found == {i \in 1..Len(sections) :
                    get_rcfile_variable_value(var_name, parsed, environ,
                                              sections[i]).kind = "return"}
    IN  IF sections = <<>>
        THEN [kind |-> "ValueError", section |-> <<>>, value |-> None]
        ELSE IF found = {}
        THEN [kind |-> "KeyError", section |-> <<>>, value |-> None]
        ELSE LET i == CHOOSE j \in found : \A l \in found : j <= l
             IN  [kind |-> "return", section |-> sections[i],
                  value |-> get_rcfile_variable_value(var_name, parsed, environ,
                                                      sections[i]).value]

\* get_sections: config.sections(), the sections in the order the files
\* introduced them.
get_sections(parsed) == Orders(DOMAIN parsed)

\* find_in_sections(var_name, app_name).  The outcome keeps the section list
\* and the environ mapping the call worked with.
RcFindInSections ==
    /\ rc_pc = "start" /\ rc_op = "find_in_sections"
    /\ \E sections \in get_sections(rc_parsed),
          environ \in get_environment(Appname, rc_osenv) :
         LET res == find_in_sections(rc_var, sections, rc_parsed, environ)
         IN  rc_out' = [kind |-> res.kind, section |-> res.section,
                        value |-> res.value, sections |-> sections,
                        environ |-> environ]
    /\ rc_pc' = "done"
    /\ UNCHANGED <<rc_op, rc_var, rc_strip, rc_section, rc_args, rc_parsed, rc_osenv>>
    /\ UNCHANGED <<mkVars, cdVars, exVars, cfVars, mgVars>>

RcNext ==
    \/ RcFile
    \/ RcFindInSections

(***************************************************************************)
(* nifti/mask.py: images and arrays.                                       *)
(*                                                                         *)
(* An image is [exists, shape, data]: data is the voxel array flattened in *)
(* row-major (C) order, as numpy lays it out; an image that cannot be      *)
(* opened has exists = FALSE.                                              *)
(***************************************************************************)
\* Largest voxel value of a generated mask, of a generated volume, and the
\* longest generated file list.
MaxMaskVoxel == 4
MaxVolVoxel  == 2
MaxFiles     == 2

RECURSIVE Prod(_)
Prod(shape) == IF shape = <<>> THEN 1 ELSE Head(shape) * Prod(Tail(shape))

\* The affines of the generated images; an image has the first unless it is
\* given the other.
Affines == {"identity", "scaled"}

Img(shape, data) ==
    [exists |-> TRUE, shape |-> shape, data |-> data, affine |-> "identity"]
Unreadable ==
    [exists |-> FALSE, shape |-> <<>>, data |-> <<>>, affine |-> "identity"]

WithAffine(image, affine) == [image EXCEPT !.affine = affine]

\* Every readable image of one of the shapes with voxels of vals.
Images(shapes, vals) ==
    UNION {{Img(sh, d) : d \in [1..Prod(sh) -> vals]} : sh \in shapes}

\* The 0-based row-major position of coordinate c in an array of the shape,
\* and the coordinate at a position.
RECURSIVE Ravel(_, _)
Ravel(c, shape) ==
    IF c = <<>> THEN 0
    ELSE Head(c) * Prod(Tail(shape)) + Ravel(Tail(c), Tail(shape))

RECURSIVE Unravel(_, _)
Unravel(pos, shape) ==
    IF shape = <<>> THEN <<>>
    ELSE <<pos \div Prod(Tail(shape))>>
         \o Unravel(pos % Prod(Tail(shape)), Tail(shape))

\* np.unique(data): the distinct values.
np_unique(data) == {data[i] : i \in 1..Len(data)}

\* A conversion to bool that takes only positive values as True.
as_bool_positive(data) == [i \in 1..Len(data) |-> data[i] > 0]

\* as_ndarray(data, dtype=bool): non-zero is True.
as_bool(data) == [i \in 1..Len(data) |-> data[i] # 0]

\* The 1-based positions where a boolean array is true, ascending.
RECURSIVE TruePositions(_, _)
TruePositions(b, n) ==
    IF n = 0 THEN <<>>
    ELSE IF b[n] THEN Append(TruePositions(b, n - 1), n)
         ELSE TruePositions(b, n - 1)

\* np.where read from the last true voxel to the first.
np_where_reversed(b, shape) ==
    LET pos == TruePositions(b, Len(b))
    IN  [i \in 1..Len(pos) |-> Unravel(pos[Len(pos) + 1 - i] - 1, shape)]

\* np.where(mask_data): the coordinates of the true voxels in row-major
\* order.  numpy returns one index array per axis; entry i here is the
\* i-th index tuple, that is the i-th entry of each of those arrays.
np_where(b, shape) ==
    LET pos == TruePositions(b, Len(b))
    IN  [i \in 1..Len(pos) |-> Unravel(pos[i] - 1, shape)]

\* vol[mask_data]: boolean indexing, the voxels at the true positions in
\* row-major order.
bool_index(vol, b) ==
    LET pos == TruePositions(b, Len(b))
    IN  [i \in 1..Len(pos) |-> vol[pos[i]]]

\* vol[indices]: the voxels at the index tuples, in their order.
fancy_index(vol, shape, indices) ==
    [i \in 1..Len(indices) |-> vol[Ravel(indices[i], shape) + 1]]

\* np.count_nonzero of an array.
count_nonzero(data) == Cardinality({i \in 1..Len(data) : data[i] # 0})

(***************************************************************************)
(* nifti/check.py is not among the sources; these follow the               *)
(* specification: check_img opens an image without reading its voxels and  *)
(* raises the file-not-found error, the compatibility check compares the   *)
(* shapes (the first three dimensions only, when asked).                   *)
(***************************************************************************)
check_img_ok(image) == image.exists

FirstDims(shape, n) == SubSeq(shape, 1, IF Len(shape) < n THEN Len(shape) ELSE n)

SpatialDims == 3

\* The comparison of the whole shapes, whatever only_check_3d says.
have_same_shape_all_dims(one_img, another_img, only_check_3d) ==
    one_img.shape = another_img.shape

have_same_shape(one_img, another_img, only_check_3d) ==
    IF only_check_3d
    THEN FirstDims(one_img.shape, SpatialDims) = FirstDims(another_img.shape, SpatialDims)
    ELSE one_img.shape = another_img.shape

(***************************************************************************)
(* load_mask                                                               *)
(***************************************************************************)
\* The allow_empty argument a call passes: left out, True or False.
AllowArgs == {"default", "true", "false"}

\* load_mask's signature with allow_empty defaulting to False.
allow_empty_default_false(arg) == arg = "true"

\* load_mask(image, allow_empty=True): the value of allow_empty in the call.
allow_empty_value(arg) == IF arg = "default" THEN TRUE ELSE arg = "true"

\* The validation with the background check of two-valued masks left out.
mask_values_rejected_no_background(values, allow_empty) ==
    IF Cardinality(values) = 1 THEN 0 \in values /\ ~allow_empty
    ELSE Cardinality(values) # 2

\* Lines 53-67: whether the distinct values make load_mask raise ValueError.
mask_values_rejected(values, allow_empty) ==
    IF Cardinality(values) = 1 THEN 0 \in values /\ ~allow_empty
    ELSE IF Cardinality(values) = 2 THEN 0 \notin values
    ELSE TRUE

\* load_mask(image, allow_empty): the outcome, the boolean image returned
\* and the reads of the image's voxel data (id names the image read).
load_mask(image, id, arg) ==
    IF ~check_img_ok(image)
    THEN [kind |-> "FileNotFound", img |-> Unreadable, reads |-> <<>>]
    ELSE IF mask_values_rejected(np_unique(image.data), allow_empty_value(arg))
         THEN [kind |-> "ValueError", img |-> Unreadable, reads |-> <<id>>]
         ELSE [kind |-> "return",
               img |-> WithAffine(Img(image.shape, as_bool(image.data)),
                                  image.affine),
               reads |-> <<id, id>>]

(***************************************************************************)
(* The operations on two or more images.  Each gives the outcome of the    *)
(* call: kind is "return" or the exception raised; cause is the exception  *)
(* that first went wrong and wrapped tells whether the caller gets a new   *)
(* exception made in an except clause in its place; reads lists the images *)
(* whose voxel data was read, in the order of the reads (0 is the mask, i  *)
(* the i-th image of the call); visited lists the files a loop went        *)
(* through.                                                                *)
(***************************************************************************)
NoArray == <<>>

\* An exception that reaches the caller as it was raised.
Raised(kind, reads, visited) ==
    [kind |-> kind, cause |-> kind, wrapped |-> FALSE,
     data |-> NoArray, indices |-> NoArray, shape |-> NoArray,
     reads |-> reads, visited |-> visited]

\* `except: ... raise Kind(msg)`: the exception cause is caught and a new
\* one of the kind, with a message of its own, is raised.
RaisedInstead(kind, cause, reads, visited) ==
    [kind |-> kind, cause |-> cause, wrapped |-> TRUE,
     data |-> NoArray, indices |-> NoArray, shape |-> NoArray,
     reads |-> reads, visited |-> visited]

Returned(data, indices, shape, reads, visited) ==
    [kind |-> "return", cause |-> "none", wrapped |-> FALSE,
     data |-> data, indices |-> indices, shape |-> shape,
     reads |-> reads, visited |-> visited]

\* What the first try block of apply_mask and apply_mask_4d raises: check_img
\* on an image that cannot be opened, or the compatibility check.
FirstTryCause(image, mask_img) ==
    IF ~check_img_ok(image) \/ ~check_img_ok(mask_img) THEN "FileNotFound"
    ELSE "NiftiFilesNotCompatible"

\* apply_mask reading the volume before it checks the two images.
apply_mask_reads_first(image, mask_img) ==
    IF ~check_img_ok(image) \/ ~check_img_ok(mask_img)
    THEN RaisedInstead("NiftiFilesNotCompatible", "FileNotFound", <<>>, <<>>)
    ELSE IF ~have_same_shape(image, mask_img, FALSE)
    THEN RaisedInstead("NiftiFilesNotCompatible", "NiftiFilesNotCompatible",
                       <<1>>, <<>>)
    ELSE LET lm    == load_mask(mask_img, 0, "default")
             reads == <<1>> \o lm.reads
         IN  IF lm.kind # "return"
             THEN RaisedInstead("ValueError", lm.kind, reads, <<>>)
             ELSE Returned(bool_index(image.data, lm.img.data),
                           np_where(lm.img.data, lm.img.shape),
                           NoArray, reads, <<>>)

\* apply_mask(image, mask_img): lines 202-221.
apply_mask(image, mask_img) ==
    IF \/ ~check_img_ok(image)
       \/ ~check_img_ok(mask_img)
       \/ ~have_same_shape(image, mask_img, FALSE)
    THEN RaisedInstead("NiftiFilesNotCompatible", FirstTryCause(image, mask_img),
                       <<>>, <<>>)
    ELSE LET lm    == load_mask(mask_img, 0, "default")
             reads == <<1>> \o lm.reads
         IN  IF lm.kind # "return"
             THEN RaisedInstead("ValueError", lm.kind, reads, <<>>)
             ELSE Returned(bool_index(image.data, lm.img.data),
                           np_where(lm.img.data, lm.img.shape),
                           NoArray, reads, <<>>)

\* The voxels per spatial position of a volume: 1 for a 3D volume, the
\* length of the trailing axis for a 4D one.
SeriesLen(shape) ==
    IF Len(shape) > SpatialDims
    THEN Prod(SubSeq(shape, SpatialDims + 1, Len(shape)))
    ELSE 1

\* vol_data[mask_data] for a 3D mask and a 4D volume: one row per true voxel
\* of the mask, holding that voxel's values along the trailing axis.
bool_index_4d(vol, shape, b) ==
    LET pos == TruePositions(b, Len(b))
        T   == SeriesLen(shape)
    IN  [j \in 1..Len(pos) |-> [t \in 1..T |-> vol[(pos[j] - 1) * T + t]]]

\* apply_mask_4d(image, mask_img): lines 268-285, with
\* _apply_mask_to_4d_data and load_mask_data, which passes allow_empty=True.
apply_mask_4d(image, mask_img) ==
    IF \/ ~check_img_ok(image)
       \/ ~check_img_ok(mask_img)
       \/ ~have_same_shape(image, mask_img, TRUE)
    THEN RaisedInstead("NiftiFilesNotCompatible", FirstTryCause(image, mask_img),
                       <<>>, <<>>)
    ELSE LET lm    == load_mask(mask_img, 0, "true")
             reads == <<1>> \o lm.reads
         IN  IF lm.kind # "return"
             THEN RaisedInstead("ValueError", lm.kind, reads, <<>>)
             ELSE Returned(bool_index_4d(image.data, image.shape, lm.img.data),
                           np_where(lm.img.data, lm.img.shape),
                           image.shape, reads, <<>>)

\* The voxel type of the images: a signed integer of VoxelBits bits.
VoxelBits == 3

\* An integer as the voxel type holds it (two's complement wrap-around).
Wrap(x) == ((x + 2^(VoxelBits - 1)) % 2^VoxelBits) - 2^(VoxelBits - 1)

\* union_mask's loop over the first n files: mask += data of each file, as
\* long as every file opens and has the first image's shape.
RECURSIVE UnionLoop(_, _)
UnionLoop(filelist, n) ==
    IF n = 0
    THEN [ok |-> TRUE, cause |-> "none",
          mask |-> [i \in 1..Len(filelist[1].data) |-> 0],
          reads |-> <<1>>, visited |-> <<>>]
    ELSE LET before == UnionLoop(filelist, n - 1)
             roiimg == filelist[n]
         IN  IF ~before.ok THEN before
             ELSE IF \/ ~check_img_ok(roiimg)
                     \/ ~have_same_shape(filelist[1], roiimg, FALSE)
                  THEN [before EXCEPT !.ok = FALSE,
                                      !.cause = IF check_img_ok(roiimg)
                                                THEN "NiftiFilesNotCompatible"
                                                ELSE "FileNotFound",
                                      !.visited = Append(before.visited, n)]
                  ELSE [ok |-> TRUE, cause |-> "none",
                        mask |-> [i \in 1..Len(before.mask) |->
                                     Wrap(before.mask[i] + roiimg.data[i])],
                        reads |-> Append(before.reads, n),
                        visited |-> Append(before.visited, n)]

\* union_mask(filelist): lines 154-168.
union_mask(filelist) ==
    IF filelist = <<>> THEN Raised("IndexError", <<>>, <<>>)
    ELSE IF ~check_img_ok(filelist[1]) THEN Raised("FileNotFound", <<>>, <<>>)
    ELSE LET loop == UnionLoop(filelist, Len(filelist))
         IN  IF ~loop.ok
             THEN RaisedInstead("ValueError", loop.cause, loop.reads, loop.visited)
             ELSE Returned([i \in 1..Len(loop.mask) |-> loop.mask[i] > 0],
                           NoArray, filelist[1].shape, loop.reads, loop.visited)

\* np.count_nonzero of the image object load_mask returned (line 356 passes
\* mask, not mask_data): numpy wraps the object in a 0-d object array, whose
\* one element counts as non-zero because an image object is truthy.
count_nonzero_image(mask) == Cardinality({mask})

\* outmat[i, :] = row for a matrix of ncols columns: numpy broadcasts a row
\* of ncols values or of one value, and raises ValueError for any other.
BroadcastOk(row, ncols) == Len(row) = ncols \/ Len(row) = 1

Broadcast(row, ncols) ==
    IF Len(row) = ncols THEN row ELSE [c \in 1..ncols |-> row[1]]

\* niftilist_mask_to_array's loop over the first n files (lines 360-366).
RECURSIVE NiftilistLoop(_, _, _, _, _)
NiftilistLoop(img_filelist, mask_file, indices, ncols, n) ==
    IF n = 0
    THEN [kind |-> "return", rows |-> <<>>, reads |-> <<>>, visited |-> <<>>]
    ELSE LET before == NiftilistLoop(img_filelist, mask_file, indices, ncols, n - 1)
             img    == img_filelist[n]
             seen   == Append(before.visited, n)
         IN  IF before.kind # "return" THEN before
             ELSE IF ~check_img_ok(img)
                  THEN [before EXCEPT !.kind = "FileNotFound", !.visited = seen]
             ELSE IF ~have_same_shape(img, mask_file, FALSE)
                  THEN [before EXCEPT !.kind = "NiftiFilesNotCompatible",
                                      !.visited = seen]
             ELSE LET row == fancy_index(img.data, img.shape, indices)
                  IN  IF ~BroadcastOk(row, ncols)
                      THEN [before EXCEPT !.kind = "ValueError",
                                          !.reads = Append(before.reads, n),
                                          !.visited = seen]
                      ELSE [kind |-> "return",
                            rows |-> Append(before.rows, Broadcast(row, ncols)),
                            reads |-> Append(before.reads, n),
                            visited |-> seen]

\* niftilist_mask_to_array(img_filelist, mask_file): lines 348-371.
niftilist_mask_to_array(img_filelist, mask_file) ==
    IF img_filelist = <<>> THEN Raised("IndexError", <<>>, <<>>)
    ELSE IF ~check_img_ok(img_filelist[1]) THEN Raised("FileNotFound", <<>>, <<>>)
    ELSE LET lm == load_mask(mask_file, 0, "default")
         IN  IF lm.kind # "return" THEN Raised(lm.kind, lm.reads, <<>>)
             ELSE LET indices == np_where(lm.img.data, lm.img.shape)
                      ncols   == count_nonzero_image(lm.img)
                      loop    == NiftilistLoop(img_filelist, mask_file, indices,
                                               ncols, Len(img_filelist))
                      reads   == lm.reads \o loop.reads
                  IN  IF loop.kind # "return"
                      THEN Raised(loop.kind, reads, loop.visited)
                      ELSE Returned(loop.rows, indices, lm.img.shape, reads,
                                    loop.visited)

(***************************************************************************)
(* The specification of rcfile.  The other components stay at rest.        *)
(***************************************************************************)
NoOutcome == [kind |-> "none"]

VarNames == {<<"a">>, <<"c">>}

InitRc ==
    /\ rc_pc = "start"
    /\ \/ /\ rc_op = "rcfile"
          /\ rc_var = <<>>
          /\ rc_strip \in BOOLEAN
          /\ rc_section \in {None, Str(<<"q">>)}
          /\ rc_args \in Dicts(ArgKeys, ArgVals, MaxArgs)
       \/ /\ rc_op = "find_in_sections"
          /\ rc_var \in VarNames
          /\ rc_strip = TRUE
          /\ rc_section = None
          /\ rc_args = EmptyDict
    /\ rc_parsed \in ParsedConfigs
    /\ rc_osenv \in Dicts(EnvNames, EnvVals, MaxEnv)
    /\ rc_out = [kind |-> "none", value |-> EmptyDict, config |-> EmptyDict,
                 environ |-> EmptyDict]
    /\ mk_pc = "idle" /\ mk_op = "none" /\ mk_imgs = <<>> /\ mk_mask = Unreadable
    /\ mk_allow = "default" /\ mk_reads = <<>> /\ mk_out = NoOutcome
    /\ cd_pc = "idle" /\ cd_env = <<>> /\ cd_log = <<>> /\ cd_out = NoOutcome
    /\ ex_pc = "idle" /\ ex_file = <<>> /\ ex_calls = <<>> /\ ex_log = <<>>
    /\ ex_out = NoOutcome
    /\ cf_pc = "idle" /\ cf_in = <<>> /\ cf_out = NoOutcome
    /\ mg_pc = "idle" /\ mg_in = <<>> /\ mg_out = NoOutcome

SpecRc == InitRc /\ [][RcNext]_vars

(***************************************************************************)
(* utils/rcfile.py: the config files get_config reads.  A path is the      *)
(* sequence of its pieces ("/", names, "." and "rc"); the disk is a        *)
(* function from the paths of the files that exist to their contents, a    *)
(* content being section name -> items.                                    *)
(***************************************************************************)
\* os.path.join of two paths.
Join(a, b) ==
    IF b # <<>> /\ Head(b) = "/" THEN b
    ELSE IF a = <<>> \/ a[Len(a)] = "/" THEN a \o b
    ELSE a \o <<"/">> \o b

\* op.expanduser('~').
Home == <<"/", "home">>

\* '%src' % appname and '.%src' % appname.
RcName(appname)    == appname \o <<"rc">>
DotRcName(appname) == <<".">> \o appname \o <<"rc">>

\* `config_file or ''`.
OrEmpty(x) == IF Truthy(x) THEN x.v ELSE <<>>

\* get_config_filepaths, lines 41-59.
get_config_filepaths(appname, config_file, additional_search_path) ==
    LET files == << Join(Join(<<"/", "etc">>, appname), <<"config">>),
                    Join(<<"/", "etc">>, RcName(appname)),
                    Join(Join(Join(Home, <<".", "config">>), appname), <<"config">>),
                    Join(Join(Home, <<".", "config">>), appname),
                    Join(Join(Home, <<".">> \o appname), <<"config">>),
                    Join(Home, DotRcName(appname)),
                    RcName(appname),
                    DotRcName(appname),
                    OrEmpty(config_file) >>
    IN  IF additional_search_path # None
        THEN files \o << Join(additional_search_path.v, RcName(appname)),
                         Join(additional_search_path.v, DotRcName(appname)) >>
        ELSE files

\* One file read into the parser: its sections are added, and an option it
\* sets replaces the value an earlier file gave.
read_file(parsed, content) ==
    [sec \in DOMAIN parsed \cup DOMAIN content |->
        IF sec \notin DOMAIN content THEN parsed[sec]
        ELSE IF sec \notin DOMAIN parsed THEN content[sec]
        ELSE [k \in DOMAIN parsed[sec] \cup DOMAIN content[sec] |->
                 IF k \in DOMAIN content[sec] THEN content[sec][k]
                 ELSE parsed[sec][k]]]

\* config.read(files) over the first n names: the files are read in list
\* order, a name that cannot be opened is passed over.
RECURSIVE config_read(_, _, _)
config_read(files, disk, n) ==
    IF n = 0 THEN [parsed |-> EmptyDict, read |-> <<>>]
    ELSE LET before == config_read(files, disk, n - 1)
         IN  IF files[n] \notin DOMAIN disk THEN before
             ELSE [parsed |-> read_file(before.parsed, disk[files[n]]),
                   read   |-> Append(before.read, files[n])]

\* The files a generated disk may hold: apprc in the working directory, the
\* file the config argument names and apprc in the path folder.
ConfigArg  == <<"/", "k">>
PathArg    == <<"/", "d">>
DiskPaths  == {RcName(Appname), ConfigArg, Join(PathArg, RcName(Appname))}
FileValues == {Str(<<"x">>), Str(<<"y">>)}
FileContents ==
    {[sec \in {GenericSection} |-> d] : d \in Dicts({<<"a">>}, FileValues, 1)}
Disks == UNION {[S -> FileContents] : S \in SUBSET DiskPaths}

\* get_config(appname, section, config_file, additional_search_path), as
\* rcfile calls it with args.get('config', '') and args.get('path', '').
CfGetConfig ==
    /\ cf_pc = "start"
    /\ LET files == get_config_filepaths(Appname, cf_in.config_file,
                                         cf_in.additional_search_path)
           rd    == config_read(files, cf_in.disk, Len(files))
       IN  cf_out' = [kind |-> "return", files |-> files, read |-> rd.read,
                      parsed |-> rd.parsed,
                      value |-> get_config(rd.parsed, GenericSection)]
    /\ cf_pc' = "done"
    /\ UNCHANGED cf_in
    /\ UNCHANGED <<rcVars, mkVars, cdVars, exVars, mgVars>>

InitConfigFiles ==
    /\ cf_pc = "start"
    /\ cf_in \in [config_file : {None, Str(<<>>), Str(ConfigArg)},
                  additional_search_path : {None, Str(<<>>), Str(PathArg)},
                  disk : Disks]
    /\ cf_out = NoOutcome
    /\ rc_pc = "idle" /\ rc_op = "none" /\ rc_var = <<>>
    /\ rc_strip = FALSE /\ rc_section = None
    /\ rc_args = EmptyDict /\ rc_parsed = EmptyDict /\ rc_osenv = EmptyDict
    /\ rc_out = NoOutcome
    /\ mk_pc = "idle" /\ mk_op = "none" /\ mk_imgs = <<>> /\ mk_mask = Unreadable
    /\ mk_allow = "default" /\ mk_reads = <<>> /\ mk_out = NoOutcome
    /\ cd_pc = "idle" /\ cd_env = <<>> /\ cd_log = <<>> /\ cd_out = NoOutcome
    /\ ex_pc = "idle" /\ ex_file = <<>> /\ ex_calls = <<>> /\ ex_log = <<>>
    /\ ex_out = NoOutcome
    /\ mg_pc = "idle" /\ mg_in = <<>> /\ mg_out = NoOutcome

CfNext == CfGetConfig

SpecConfigFiles == InitConfigFiles /\ [][CfNext]_vars

(***************************************************************************)
(* utils/rcfile.py: merge for keys of any type.  A string key is the       *)
(* sequence of its characters; the integer key n is the digits of n after  *)
(* the piece "int:", so that the key 1 and the key '1' differ.             *)
(***************************************************************************)
IntTag == "int:"

\* str(key): a string as it is, an integer as its digits.
py_str(key) == IF key # <<>> /\ Head(key) = IntTag THEN Tail(key) ELSE key

\* The pairs of a merge in which every value of dict_1, falsy or not, has
\* priority.
merge_pairs_first_wins(dict_1, dict_2) ==
    {<<py_str(key), IF key \in DOMAIN dict_1 THEN dict_1[key] ELSE Get(dict_2, key)>> :
        key \in DOMAIN dict_2 \cup DOMAIN dict_1}

\* The pairs merge's generator yields (lines 29-30), one per key of either
\* dict.
merge_pairs(dict_1, dict_2) ==
    {<<py_str(key), PyOr(Get(dict_1, key), Get(dict_2, key))>> :
        key \in DOMAIN dict_2 \cup DOMAIN dict_1}

\* dict(pairs): of the pairs with one key the dict keeps the one it gets
\* last.  The pairs come in the iteration order of a set, which is any order,
\* so for every key each of its pairs can be the one kept.
dict_of_pairs(pairs) ==
    LET keys == {pr[1] : pr \in pairs}
    IN  {d \in [keys -> {pr[2] : pr \in pairs}] :
            \A k \in keys : <<k, d[k]>> \in pairs}

\* Most keys a generated dict of merge holds.
MaxMergeKeys == 2

MergeKeys == {<<"a">>, <<"1">>, <<IntTag, "1">>}
MergeVals == {Str(<<>>), Str(<<"x">>), Str(<<"y">>)}

\* merge(dict_1, dict_2).
Merge ==
    /\ mg_pc = "start"
    /\ \E d \in dict_of_pairs(merge_pairs(mg_in.dict_1, mg_in.dict_2)) :
         mg_out' = [kind |-> "return", value |-> d]
    /\ mg_pc' = "done"
    /\ UNCHANGED mg_in
    /\ UNCHANGED <<rcVars, mkVars, cdVars, exVars, cfVars>>

InitMerge ==
    /\ mg_pc = "start"
    /\ mg_in \in [dict_1 : Dicts(MergeKeys, MergeVals, MaxMergeKeys),
                  dict_2 : Dicts(MergeKeys, MergeVals, MaxMergeKeys)]
    /\ mg_out = NoOutcome
    /\ rc_pc = "idle" /\ rc_op = "none" /\ rc_var = <<>>
    /\ rc_strip = FALSE /\ rc_section = None
    /\ rc_args = EmptyDict /\ rc_parsed = EmptyDict /\ rc_osenv = EmptyDict
    /\ rc_out = NoOutcome
    /\ mk_pc = "idle" /\ mk_op = "none" /\ mk_imgs = <<>> /\ mk_mask = Unreadable
    /\ mk_allow = "default" /\ mk_reads = <<>> /\ mk_out = NoOutcome
    /\ cd_pc = "idle" /\ cd_env = <<>> /\ cd_log = <<>> /\ cd_out = NoOutcome
    /\ ex_pc = "idle" /\ ex_file = <<>> /\ ex_calls = <<>> /\ ex_log = <<>>
    /\ ex_out = NoOutcome
    /\ cf_pc = "idle" /\ cf_in = <<>> /\ cf_out = NoOutcome

MgNext == Merge

SpecMerge == InitMerge /\ [][MgNext]_vars

(***************************************************************************)
(* The specification of the mask operations: one call of one operation on  *)
(* generated images.  The other components stay at rest.                   *)
(***************************************************************************)
MaskVoxels   == (0..MaxMaskVoxel) \cup {-1}
VolVoxels    == 0..MaxVolVoxel
SignedVoxels == VolVoxels \cup {-1}

MaskShapes  == {<<0, 1, 1>>, <<1, 1, 1>>, <<2, 1, 1>>, <<2, 2, 1>>}
VolShapes   == {<<2, 1, 1>>, <<1, 2, 1>>, <<2, 2, 1>>}
Vol4dShapes == {<<2, 1, 1, 2>>, <<1, 2, 1, 2>>}
RowShapes   == {<<2, 1, 1>>, <<1, 2, 1>>}

\* The files of a list: volumes of one shape, one volume of another shape
\* and a file that cannot be opened.
ListImages(vals) ==
    Images({<<2, 1, 1>>}, vals) \cup Images({<<1, 2, 1>>}, {1}) \cup {Unreadable}

FileLists(vals) == UNION {[1..n -> ListImages(vals)] : n \in 0..MaxFiles}

InitMask ==
    /\ mk_pc = "start"
    /\ \/ /\ mk_op = "load_mask"
          /\ mk_imgs = <<>>
          /\ mk_mask \in {WithAffine(image, affine) :
                              image \in Images(MaskShapes, MaskVoxels),
                              affine \in Affines}
                         \cup {Unreadable}
          /\ mk_allow \in AllowArgs
       \/ /\ mk_op = "apply_mask"
          /\ mk_imgs \in [1..1 -> Images(VolShapes, VolVoxels) \cup {Unreadable}]
          /\ mk_mask \in Images(VolShapes, VolVoxels) \cup {Unreadable}
          /\ mk_allow = "default"
       \/ /\ mk_op = "apply_mask_4d"
          /\ mk_imgs \in [1..1 -> Images(Vol4dShapes, VolVoxels) \cup {Unreadable}]
          /\ mk_mask \in Images(RowShapes, VolVoxels) \cup {Unreadable}
          /\ mk_allow = "default"
       \/ /\ mk_op = "union_mask"
          /\ mk_imgs \in FileLists(SignedVoxels)
          /\ mk_mask = Unreadable
          /\ mk_allow = "default"
       \/ /\ mk_op = "niftilist_mask_to_array"
          /\ mk_imgs \in FileLists(VolVoxels)
          /\ mk_mask \in ListImages(VolVoxels)
          /\ mk_allow = "default"
    /\ mk_reads = <<>>
    /\ mk_out = NoOutcome
    /\ rc_pc = "idle" /\ rc_op = "none" /\ rc_var = <<>>
    /\ rc_strip = FALSE /\ rc_section = None
    /\ rc_args = EmptyDict /\ rc_parsed = EmptyDict /\ rc_osenv = EmptyDict
    /\ rc_out = NoOutcome
    /\ cd_pc = "idle" /\ cd_env = <<>> /\ cd_log = <<>> /\ cd_out = NoOutcome
    /\ ex_pc = "idle" /\ ex_file = <<>> /\ ex_calls = <<>> /\ ex_log = <<>>
    /\ ex_out = NoOutcome
    /\ cf_pc = "idle" /\ cf_in = <<>> /\ cf_out = NoOutcome
    /\ mg_pc = "idle" /\ mg_in = <<>> /\ mg_out = NoOutcome

\* The call ends: its outcome and the reads it made are kept.
MkFinish(out) ==
    /\ mk_out' = out
    /\ mk_reads' = out.reads
    /\ mk_pc' = "done"
    /\ UNCHANGED <<mk_op, mk_imgs, mk_mask, mk_allow>>
    /\ UNCHANGED <<rcVars, cdVars, exVars, cfVars, mgVars>>

MkLoadMask ==
    /\ mk_pc = "start" /\ mk_op = "load_mask"
    /\ LET lm == load_mask(mk_mask, 0, mk_allow)
       IN  MkFinish([kind |-> lm.kind,
                     cause |-> IF lm.kind = "return" THEN "none" ELSE lm.kind,
                     wrapped |-> FALSE,
                     data |-> lm.img.data, indices |-> NoArray,
                     shape |-> lm.img.shape, affine |-> lm.img.affine,
                     reads |-> lm.reads, visited |-> <<>>])

MkApplyMask ==
    /\ mk_pc = "start" /\ mk_op = "apply_mask"
    /\ MkFinish(apply_mask(mk_imgs[1], mk_mask))

MkApplyMask4d ==
    /\ mk_pc = "start" /\ mk_op = "apply_mask_4d"
    /\ MkFinish(apply_mask_4d(mk_imgs[1], mk_mask))

MkUnionMask ==
    /\ mk_pc = "start" /\ mk_op = "union_mask"
    /\ MkFinish(union_mask(mk_imgs))

MkNiftilist ==
    /\ mk_pc = "start" /\ mk_op = "niftilist_mask_to_array"
    /\ MkFinish(niftilist_mask_to_array(mk_imgs, mk_mask))

MkNext ==
    \/ MkLoadMask
    \/ MkApplyMask
    \/ MkApplyMask4d
    \/ MkUnionMask
    \/ MkNiftilist

SpecMask == InitMask /\ [][MkNext]_vars

(***************************************************************************)
(* Claims about utils/rcfile.py, checked under SpecRc.                     *)
(***************************************************************************)
RcReturned == rc_pc = "done" /\ rc_op = "rcfile" /\ rc_out.kind = "return"

\* The value precedence gives key k: args, else config, else environment,
\* each passed over only when falsy.  The args are the mapping rcfile merges,
\* that is args as the strip loop left it.
PrecedenceValue(k) ==
    IF k \in DOMAIN rc_args /\ Truthy(rc_args[k]) THEN rc_args[k]
    ELSE IF k \in DOMAIN rc_out.config /\ Truthy(rc_out.config[k])
         THEN rc_out.config[k]
         ELSE IF k \in DOMAIN rc_out.environ THEN rc_out.environ[k] ELSE None

\* C1: whenever rcfile returns, every key of args, of the config section or
\* of the environment mapping is in the result, with the args value when
\* that is truthy, otherwise the config value when that is truthy, otherwise
\* the environment value (None when the environment has no such key).
C1_Precedence ==
    RcReturned =>
        /\ DOMAIN rc_out.value =
              DOMAIN rc_args \cup DOMAIN rc_out.config \cup DOMAIN rc_out.environ
        /\ \A k \in DOMAIN rc_out.value : rc_out.value[k] = PrecedenceValue(k)

\* C1's case: one key whose truthy args value beats a truthy config value,
\* and one key that falls through falsy args and config values to the
\* environment.
C1_Witness ==
    /\ RcReturned
    /\ \E k \in DOMAIN rc_args \cap DOMAIN rc_out.config :
          /\ Truthy(rc_args[k]) /\ Truthy(rc_out.config[k])
          /\ rc_args[k] # rc_out.config[k]
          /\ rc_out.value[k] = rc_args[k]
    /\ \E k \in DOMAIN rc_args \cap DOMAIN rc_out.config \cap DOMAIN rc_out.environ :
          /\ ~Truthy(rc_args[k]) /\ ~Truthy(rc_out.config[k])
          /\ Truthy(rc_out.environ[k])
          /\ rc_out.value[k] = rc_out.environ[k]

(***************************************************************************)
(* Claims about nifti/mask.py, checked under SpecMask.                     *)
(***************************************************************************)
MkDone(op) == mk_pc = "done" /\ mk_op = op

\* The distinct raw voxel values of an image.
DistinctValues(image) == {image.data[i] : i \in DOMAIN image.data}

\* C2: load_mask raises ValueError for every image whose number of distinct
\* raw values is neither 1 nor 2, and for every image with two distinct
\* values none of which is zero; it accepts every image with two distinct
\* values one of which is zero.  [[0,0],[0,1]] is accepted and [[1,2],[3,4]]
\* is rejected.
C2_InvalidMaskRejected ==
    (MkDone("load_mask") /\ mk_mask.exists) =>
        LET vals == DistinctValues(mk_mask)
            n    == Cardinality(vals)
        IN  /\ n \notin {1, 2} => mk_out.kind = "ValueError"
            /\ (n = 2 /\ 0 \notin vals) => mk_out.kind = "ValueError"
            /\ (n = 2 /\ 0 \in vals) => mk_out.kind = "return"
            /\ mk_mask.data = <<0, 0, 0, 1>> => mk_out.kind = "return"
            /\ mk_mask.data = <<1, 2, 3, 4>> => mk_out.kind = "ValueError"

\* C2's case: the mask [[1,2],[3,4]] was given and load_mask raised.
C2_Witness ==
    /\ MkDone("load_mask")
    /\ mk_mask = Img(<<2, 2, 1>>, <<1, 2, 3, 4>>)
    /\ mk_out.kind = "ValueError"

\* The mask of the call is one that reaches load_mask: in apply_mask the
\* image opens and has the mask's shape.
MaskIsLoaded ==
    /\ mk_mask.exists
    /\ \/ MkDone("load_mask")
       \/ /\ MkDone("apply_mask")
          /\ mk_imgs[1].exists /\ mk_imgs[1].shape = mk_mask.shape

\* C3 as stated: a mask with one distinct raw value is accepted only if that
\* value is non-zero or the caller passed allow_empty=True; an all-zero mask
\* is rejected in every other call, the one inside apply_mask included.
C3_RejectedUnlessPermitted ==
    (MaskIsLoaded /\ Cardinality(DistinctValues(mk_mask)) = 1
                  /\ mk_out.kind = "return")
        => (0 \notin DistinctValues(mk_mask) \/ mk_allow = "true")

\* C3 as amended: a mask with one distinct raw value is rejected exactly when
\* that value is zero and the caller passed allow_empty=False; when
\* allow_empty is left out it is True, so load_mask accepts the all-zero
\* mask, and apply_mask, which leaves it out, returns no voxel and no index
\* for an all-zero mask.
C3_RejectedOnlyWhenForbidden ==
    (MaskIsLoaded /\ Cardinality(DistinctValues(mk_mask)) = 1) =>
        /\ mk_out.kind = "return"
              <=> (0 \notin DistinctValues(mk_mask) \/ mk_allow # "false")
        /\ (MkDone("apply_mask") /\ 0 \in DistinctValues(mk_mask)) =>
              (mk_out.data = <<>> /\ mk_out.indices = <<>>)

\* C3's case: apply_mask was given an all-zero mask and returned.
C3_Witness ==
    /\ MkDone("apply_mask")
    /\ MaskIsLoaded
    /\ DistinctValues(mk_mask) = {0}
    /\ mk_out.kind = "return"

\* The volume's voxel at an index tuple.
VoxelAt(image, c) == image.data[Ravel(c, image.shape) + 1]

\* The returned values written into a zero array of the shape at the
\* returned indices.
Scatter(values, indices, shape) ==
    [p \in 1..Prod(shape) |->
        IF \E i \in 1..Len(indices) : Ravel(indices[i], shape) + 1 = p
        THEN values[CHOOSE i \in 1..Len(indices) : Ravel(indices[i], shape) + 1 = p]
        ELSE 0]

\* C4: when apply_mask returns, there are as many values as index tuples,
\* the i-th value is the volume's voxel at the i-th index tuple, the index
\* tuples are those of the mask's non-zero voxels, and scattering the values
\* at the indices into a zero array gives the volume at every mask-true
\* voxel and zero elsewhere.
C4_RoundTrip ==
    (MkDone("apply_mask") /\ mk_out.kind = "return") =>
        LET vol == mk_imgs[1]
        IN  /\ Len(mk_out.data) = Len(mk_out.indices)
            /\ \A i \in 1..Len(mk_out.indices) :
                  mk_out.data[i] = VoxelAt(vol, mk_out.indices[i])
            /\ {Ravel(mk_out.indices[i], vol.shape) + 1 : i \in 1..Len(mk_out.indices)}
                  = {p \in 1..Len(mk_mask.data) : mk_mask.data[p] # 0}
            /\ Scatter(mk_out.data, mk_out.indices, vol.shape)
                  = [p \in 1..Len(vol.data) |->
                        IF mk_mask.data[p] # 0 THEN vol.data[p] ELSE 0]

\* C4's case: apply_mask returned two voxels of different value and left out
\* a non-zero voxel.
C4_Witness ==
    /\ MkDone("apply_mask") /\ mk_out.kind = "return"
    /\ Len(mk_out.data) >= 2
    /\ mk_out.data[1] # mk_out.data[2]
    /\ \E p \in 1..Len(mk_mask.data) : mk_mask.data[p] = 0 /\ mk_imgs[1].data[p] # 0

\* The reads of the call as a set of image ids.
ReadIds == {mk_reads[i] : i \in 1..Len(mk_reads)}

\* The first file of the list, all files before it being readable and of the
\* reference shape, that is readable and of another shape (0 if none).
FirstMismatch(filelist, ref) ==
    LET bad(j) == filelist[j].exists /\ filelist[j].shape # ref.shape
        ok(j)  == filelist[j].exists /\ filelist[j].shape = ref.shape
        js     == {j \in 1..Len(filelist) :
                      bad(j) /\ \A i \in 1..(j - 1) : ok(i)}
    IN  IF js = {} THEN 0 ELSE CHOOSE j \in js : TRUE

\* The two images of the call are readable and their shapes differ (for
\* apply_mask_4d: in the first three dimensions).
TwoImagesMismatch ==
    \/ /\ MkDone("apply_mask")
       /\ mk_imgs[1].exists /\ mk_mask.exists
       /\ mk_imgs[1].shape # mk_mask.shape
    \/ /\ MkDone("apply_mask_4d")
       /\ mk_imgs[1].exists /\ mk_mask.exists
       /\ SubSeq(mk_imgs[1].shape, 1, 3) # SubSeq(mk_mask.shape, 1, 3)
    \/ /\ MkDone("union_mask")
       /\ mk_imgs # <<>> /\ mk_imgs[1].exists
       /\ FirstMismatch(mk_imgs, mk_imgs[1]) # 0
    \/ /\ MkDone("niftilist_mask_to_array")
       /\ mk_imgs # <<>> /\ mk_imgs[1].exists /\ mk_mask.exists
       /\ FirstMismatch(mk_imgs, mk_mask) # 0

\* C5 as stated: in each of the four operations, mismatched shapes raise the
\* incompatibility error before any voxel data of either image is read.
C5_RaisesBeforeAnyRead ==
    TwoImagesMismatch =>
        (mk_out.kind = "NiftiFilesNotCompatible" /\ mk_reads = <<>>)

\* C5 as amended: apply_mask and apply_mask_4d raise the incompatibility
\* error on mismatched shapes before any voxel data is read.  union_mask has
\* then read the first image's data (and that of the files before the
\* mismatching one) and raises ValueError; niftilist_mask_to_array has then
\* read the mask's data; neither returns, and neither reads the voxel data
\* of the mismatching file.
C5_MismatchingFileNotRead ==
    TwoImagesMismatch =>
        /\ (MkDone("apply_mask") \/ MkDone("apply_mask_4d")) =>
              (mk_out.kind = "NiftiFilesNotCompatible" /\ mk_reads = <<>>)
        /\ MkDone("union_mask") =>
              /\ mk_out.kind = "ValueError"
              /\ ReadIds = 1..(FirstMismatch(mk_imgs, mk_imgs[1]) - 1)
              /\ mk_reads[1] = 1
        /\ MkDone("niftilist_mask_to_array") =>
              /\ mk_out.kind # "return"
              /\ 0 \in ReadIds
              /\ FirstMismatch(mk_imgs, mk_mask) \notin ReadIds

\* C5's case: union_mask met a file of another shape after it had read the
\* first image.
C5_Witness ==
    /\ MkDone("union_mask")
    /\ TwoImagesMismatch
    /\ FirstMismatch(mk_imgs, mk_imgs[1]) = 2
    /\ mk_reads = <<1, 1>>
    /\ mk_out.kind = "ValueError"

\* The mask of a niftilist_mask_to_array call is one load_mask accepts.
NiftilistMaskValid ==
    /\ mk_mask.exists
    /\ LET vals == DistinctValues(mk_mask)
       IN  Cardinality(vals) = 1 \/ (Cardinality(vals) = 2 /\ 0 \in vals)

\* The positions of the mask's true voxels, ascending.
MaskTrue == {p \in 1..Len(mk_mask.data) : mk_mask.data[p] # 0}

\* C6 as stated: for N readable files of the mask's shape and a valid mask
\* with k true voxels, niftilist_mask_to_array returns N rows of k values,
\* row i holding file i's voxels at the mask's true positions in the order
\* of the returned indices, with the index tuples of those positions and the
\* mask's shape.
C6_MatrixOfMaskedRows ==
    (/\ MkDone("niftilist_mask_to_array")
     /\ NiftilistMaskValid
     /\ mk_imgs # <<>>
     /\ \A i \in 1..Len(mk_imgs) :
           mk_imgs[i].exists /\ mk_imgs[i].shape = mk_mask.shape)
    => /\ mk_out.kind = "return"
       /\ Len(mk_out.data) = Len(mk_imgs)
       /\ Len(mk_out.indices) = Cardinality(MaskTrue)
       /\ {Ravel(mk_out.indices[j], mk_mask.shape) + 1 :
              j \in 1..Len(mk_out.indices)} = MaskTrue
       /\ \A i \in 1..Len(mk_imgs) :
             /\ Len(mk_out.data[i]) = Cardinality(MaskTrue)
             /\ \A j \in 1..Len(mk_out.indices) :
                   mk_out.data[i][j] = VoxelAt(mk_imgs[i], mk_out.indices[j])
       /\ mk_out.shape = mk_mask.shape

\* The first file of the list that cannot be opened or has not the mask's
\* shape (0 if none).
FirstBadFile ==
    LET bad == {j \in 1..Len(mk_imgs) :
                   ~mk_imgs[j].exists \/ mk_imgs[j].shape # mk_mask.shape}
    IN  IF bad = {} THEN 0 ELSE CHOOSE j \in bad : \A i \in bad : j <= i

\* C7 as stated: with a valid mask, the first unreadable or incompatible
\* file of the list aborts niftilist_mask_to_array with that file's own
\* error (file-not-found or incompatibility), no later file is visited and no
\* matrix is returned.
C7_FirstBadFileAborts ==
    (/\ MkDone("niftilist_mask_to_array")
     /\ NiftilistMaskValid
     /\ FirstBadFile # 0)
    => /\ mk_out.kind = (IF mk_imgs[FirstBadFile].exists
                         THEN "NiftiFilesNotCompatible" ELSE "FileNotFound")
       /\ \A i \in 1..Len(mk_out.visited) : mk_out.visited[i] <= FirstBadFile
       /\ mk_out.data = NoArray

(***************************************************************************)
(* commands.py: condor_call and condor_submit.  A call goes through the    *)
(* subprocess calls one at a time; the host decides each call's result.    *)
(***************************************************************************)
\* Largest exit status a generated subprocess call returns.
MaxStatus == 2

\* What subprocess.call gives: an exit status (negative when a signal ended
\* the process), or OSError when the process could not be started.
CallResults ==
    {[raised |-> FALSE, status |-> n] : n \in (0..MaxStatus) \cup {-9}}
    \cup {[raised |-> TRUE, status |-> 0]}

\* The cmd argument, as the words cmd.split() gives.
Commands == {<<>>, <<"job">>, <<"job", "arg">>}

CdRaise(kind) ==
    /\ cd_pc' = "done"
    /\ cd_out' = [kind |-> kind]

\* A condor_submit that gives up when the probe's exit status is not 0.
after_probe_if_running(is_running) == IF is_running THEN "probed" ELSE "done"

\* Where condor_submit goes after a probe that returned: is_running is
\* assigned at line 105 and never read, the submission comes next.
after_probe(is_running) == "probed"

\* condor_submit, lines 104-108: the condor_status probe.  Its exit status
\* is kept in is_running, which nothing reads; an exception is logged and
\* raised again, and leaves condor_submit and condor_call.
CdProbe ==
    /\ cd_pc = "start"
    /\ \E r \in CallResults :
         /\ cd_log' = Append(cd_log, [call |-> "condor_status", cmd |-> <<>>,
                                      result |-> r])
         /\ IF r.raised THEN CdRaise("OSError")
            ELSE cd_pc' = after_probe(r.status = 0) /\ UNCHANGED cd_out
    /\ UNCHANGED cd_env
    /\ UNCHANGED <<rcVars, mkVars, exVars, cfVars, mgVars>>

\* condor_submit, lines 110-115: the submission command is built from the
\* first word of cmd (IndexError when cmd has none) and called; its exit
\* status is condor_submit's result.
CdSubmit ==
    /\ cd_pc = "probed"
    /\ IF cd_env.cmd = <<>>
       THEN CdRaise("IndexError") /\ UNCHANGED cd_log
       ELSE \E r \in CallResults :
              /\ cd_log' = Append(cd_log, [call |-> "condor_qsub",
                                           cmd |-> cd_env.cmd, result |-> r])
              /\ IF r.raised THEN CdRaise("OSError")
                 ELSE cd_pc' = "submitted" /\ UNCHANGED cd_out
    /\ UNCHANGED cd_env
    /\ UNCHANGED <<rcVars, mkVars, exVars, cfVars, mgVars>>

\* The result of condor_submit: the exit status of the submission command.
SubmitStatus == cd_log[Len(cd_log)].result.status

\* A condor_call that goes back to its test of ret once the direct
\* execution has ended.
AfterDirectTestAgain == "submitted"

\* Where condor_call is once the direct execution has ended: line 87 is its
\* last statement.
AfterDirect == "done"

\* condor_call, lines 85-87: the command is executed directly when
\* condor_submit returned a non-zero status.
CdFallback ==
    /\ cd_pc = "submitted"
    /\ IF SubmitStatus # 0
       THEN \E r \in CallResults :
              /\ cd_log' = Append(cd_log, [call |-> "direct", cmd |-> cd_env.cmd,
                                           result |-> r])
              /\ IF r.raised THEN CdRaise("OSError")
                 ELSE cd_pc' = AfterDirect /\ cd_out' = [kind |-> "return"]
       ELSE /\ cd_pc' = "done" /\ cd_out' = [kind |-> "return"]
            /\ UNCHANGED cd_log
    /\ UNCHANGED cd_env
    /\ UNCHANGED <<rcVars, mkVars, exVars, cfVars, mgVars>>

InitCondor ==
    /\ cd_pc = "start"
    /\ cd_env \in [cmd : Commands, shell : BOOLEAN]
    /\ cd_log = <<>>
    /\ cd_out = NoOutcome
    /\ rc_pc = "idle" /\ rc_op = "none" /\ rc_var = <<>>
    /\ rc_strip = FALSE /\ rc_section = None
    /\ rc_args = EmptyDict /\ rc_parsed = EmptyDict /\ rc_osenv = EmptyDict
    /\ rc_out = NoOutcome
    /\ mk_pc = "idle" /\ mk_op = "none" /\ mk_imgs = <<>> /\ mk_mask = Unreadable
    /\ mk_allow = "default" /\ mk_reads = <<>> /\ mk_out = NoOutcome
    /\ ex_pc = "idle" /\ ex_file = <<>> /\ ex_calls = <<>> /\ ex_log = <<>>
    /\ ex_out = NoOutcome
    /\ cf_pc = "idle" /\ cf_in = <<>> /\ cf_out = NoOutcome
    /\ mg_pc = "idle" /\ mg_in = <<>> /\ mg_out = NoOutcome

CdNext ==
    \/ CdProbe
    \/ CdSubmit
    \/ CdFallback

SpecCondor == InitCondor /\ [][CdNext]_vars

(***************************************************************************)
(* Claims about commands.py, checked under SpecCondor.                     *)
(***************************************************************************)
CdCalls(name) == {i \in 1..Len(cd_log) : cd_log[i].call = name}

\* The submission command was issued and ended with exit status 0.
SubmissionSucceeded ==
    \E i \in CdCalls("condor_qsub") :
        ~cd_log[i].result.raised /\ cd_log[i].result.status = 0

\* C8 as stated: when condor_call has ended, the command has been executed
\* directly exactly when the submission did not succeed, whatever the reason
\* (a non-zero exit status, or a condor_status probe that could not be run).
C8_FallbackWheneverNotSubmitted ==
    cd_pc = "done" => (CdCalls("direct") # {} <=> ~SubmissionSucceeded)

(***************************************************************************)
(* storage.py: ExportData.save_variables.                                  *)
(*                                                                         *)
(* files/names.py is not among the sources; get_extension and              *)
(* add_extension_if_needed follow the specification's "file extension":    *)
(* the last dot of the name and what follows it, a leading dot not         *)
(* counting, and the extension appended unless the name already ends with  *)
(* it.                                                                     *)
(***************************************************************************)
\* The position of the last "." of a name after its first character (0 if
\* there is none).
LastDot(name) ==
    LET dots == {i \in 2..Len(name) : name[i] = "."}
    IN  IF dots = {} THEN 0 ELSE CHOOSE i \in dots : \A j \in dots : j <= i

get_extension(filename) ==
    IF LastDot(filename) = 0 THEN <<>>
    ELSE SubSeq(filename, LastDot(filename), Len(filename))

EndsWith(s, e) ==
    Len(e) <= Len(s) /\ SubSeq(s, Len(s) - Len(e) + 1, Len(s)) = e

add_extension_if_needed(filename, ext) ==
    IF EndsWith(filename, ext) THEN filename ELSE filename \o ext

ExtPyshelf == <<".", "p", "y", "s", "h", "e", "l", "f">>
ExtShelf   == <<".", "s", "h", "e", "l", "f">>
ExtMat     == <<".", "m", "a", "t">>
ExtHdf5    == <<".", "h", "d", "f", "5">>
ExtH5      == <<".", "h", "5">>

\* out_exts with '.h5' forgotten.
out_exts_without_h5 == {ExtPyshelf, ExtShelf, ExtMat, ExtHdf5}

\* Line 179: the extensions save_variables takes as they are.
out_exts == {ExtPyshelf, ExtShelf, ExtMat, ExtHdf5, ExtH5}

\* The dispatch with the shelve serializer as the fallback.
serializer_for_default_shelve(ext) ==
    IF ext = ExtMat THEN "mat"
    ELSE IF ext = ExtHdf5 \/ ext = ExtH5 THEN "hdf5"
    ELSE "shelve"

\* Lines 186-196: the serializer the extension selects ("none": the error
\* is logged).
serializer_for(ext) ==
    IF ext = ExtPyshelf \/ ext = ExtShelf THEN "shelve"
    ELSE IF ext = ExtMat THEN "mat"
    ELSE IF ext = ExtHdf5 \/ ext = ExtH5 THEN "hdf5"
    ELSE "none"

\* Lines 178-184: the output path and the extension the dispatch looks at.
save_variables_target(filename) ==
    LET ext == Lower(get_extension(filename))
    IN  IF ext \notin out_exts
        THEN [output_file |-> add_extension_if_needed(filename, ExtPyshelf),
              ext |-> get_extension(filename)]
        ELSE [output_file |-> filename, ext |-> ext]

\* Every spelling of a string in capital and small letters.
CaseVariants(str) ==
    {v \in [1..Len(str) -> {str[i] : i \in 1..Len(str)}
                            \cup {UpperChar(str[i]) : i \in 1..Len(str)}] :
        \A i \in 1..Len(str) : v[i] = str[i] \/ v[i] = UpperChar(str[i])}

\* The generated file names: a stem and an extension in some spelling, or a
\* name that is nothing but a dot and letters.
Stems == {<<"f">>, <<"f", ".", "m", "a", "t">>, <<"x", ".", "d">>}

Extensions ==
    UNION {CaseVariants(e) :
              e \in {ExtShelf, ExtMat, ExtHdf5, ExtH5,
                     <<".", "t", "x", "t">>, <<".", "m", "a">>,
                     <<".", "m", "a", "t", "5">>, <<"m", "a", "t">>}}
    \cup {ExtPyshelf, <<>>}

Filenames ==
    {st \o e : st \in Stems, e \in Extensions} \cup {ExtMat, ExtH5}

\* save_variables(filename, variables).  A serializer that fails raises,
\* and the exception leaves save_variables.
SaveVariables ==
    /\ ex_pc = "start"
    /\ LET target == save_variables_target(ex_file)
           ser    == serializer_for(target.ext)
       IN  IF ser = "none"
           THEN /\ ex_log' = Append(ex_log, <<"extension not accepted", target.ext>>)
                /\ ex_out' = [kind |-> "return"]
                /\ UNCHANGED ex_calls
           ELSE /\ ex_calls' = Append(ex_calls, <<ser, target.output_file>>)
                /\ \E failed \in BOOLEAN :
                     ex_out' = [kind |-> IF failed THEN "SerializerError"
                                         ELSE "return"]
                /\ UNCHANGED ex_log
    /\ ex_pc' = "done"
    /\ UNCHANGED ex_file
    /\ UNCHANGED <<rcVars, mkVars, cdVars, cfVars, mgVars>>

InitExport ==
    /\ ex_pc = "start"
    /\ ex_file \in Filenames
    /\ ex_calls = <<>>
    /\ ex_log = <<>>
    /\ ex_out = NoOutcome
    /\ rc_pc = "idle" /\ rc_op = "none" /\ rc_var = <<>>
    /\ rc_strip = FALSE /\ rc_section = None
    /\ rc_args = EmptyDict /\ rc_parsed = EmptyDict /\ rc_osenv = EmptyDict
    /\ rc_out = NoOutcome
    /\ mk_pc = "idle" /\ mk_op = "none" /\ mk_imgs = <<>> /\ mk_mask = Unreadable
    /\ mk_allow = "default" /\ mk_reads = <<>> /\ mk_out = NoOutcome
    /\ cd_pc = "idle" /\ cd_env = <<>> /\ cd_log = <<>> /\ cd_out = NoOutcome
    /\ cf_pc = "idle" /\ cf_in = <<>> /\ cf_out = NoOutcome
    /\ mg_pc = "idle" /\ mg_in = <<>> /\ mg_out = NoOutcome

ExNext == SaveVariables

SpecExport == InitExport /\ [][ExNext]_vars

(***************************************************************************)
(* Claims about storage.py, checked under SpecExport.                      *)
(***************************************************************************)
\* The name is a non-empty stem followed by the extension e in some spelling
\* of capital and small letters.
HasExtensionCI(name, e) ==
    /\ Len(name) > Len(e)
    /\ \A i \in 1..Len(e) :
          LET c == name[Len(name) - Len(e) + i]
          IN  c = e[i] \/ c = UpperChar(e[i])

SupportedCI(name) == \E e \in {ExtPyshelf, ExtShelf, ExtMat, ExtHdf5, ExtH5} :
                        HasExtensionCI(name, e)

\* C9: for a file name whose extension is, in any spelling of capital and
\* small letters, .pyshelf or .shelf, .mat, .hdf5 or .h5, save_variables
\* calls exactly one serializer: shelve, MAT or HDF5 in that order of the
\* extensions, with the file name as given for output path.
C9_SerializerByExtension ==
    ex_pc = "done" =>
        /\ (HasExtensionCI(ex_file, ExtPyshelf) \/ HasExtensionCI(ex_file, ExtShelf))
              => ex_calls = << <<"shelve", ex_file>> >>
        /\ HasExtensionCI(ex_file, ExtMat) => ex_calls = << <<"mat", ex_file>> >>
        /\ (HasExtensionCI(ex_file, ExtHdf5) \/ HasExtensionCI(ex_file, ExtH5))
              => ex_calls = << <<"hdf5", ex_file>> >>

\* C9's case: a name ending in .H5 went to the HDF5 serializer.
C9_Witness ==
    /\ ex_pc = "done"
    /\ ex_file = <<"f", ".", "H", "5">>
    /\ ex_calls = << <<"hdf5", ex_file>> >>

\* C10: for a file name whose extension is none of the supported ones,
\* save_variables logs one error, calls no serializer and returns without
\* raising.
C10_UnsupportedExtensionLogged ==
    (ex_pc = "done" /\ ~SupportedCI(ex_file)) =>
        /\ ex_calls = <<>>
        /\ Len(ex_log) = 1
        /\ ex_out.kind = "return"

\* C10's case: a name ending in .txt was given and only logged.
C10_Witness ==
    /\ ex_pc = "done"
    /\ ex_file = <<"f", ".", "t", "x", "t">>
    /\ ex_calls = <<>>
    /\ Len(ex_log) = 1

(***************************************************************************)
(* Claims about get_config, the empty result, get_environment and          *)
(* find_in_sections, checked under SpecRc.                                 *)
(***************************************************************************)
\* rcfile ran up to its merge: it returned or raised IOError.
RcMerged ==
    rc_pc = "done" /\ rc_op = "rcfile" /\ rc_out.kind \in {"return", "IOError"}

\* The section rcfile reads, and that section's host-specific section.
RcSectionName     == IF rc_section = None THEN Appname ELSE rc_section.v
RcHostSectionName == RcSectionName \o <<":">> \o Hostname

\* The generic section's items in the parser ({} when it has no such section).
RcGenericItems ==
    IF RcSectionName \in DOMAIN rc_parsed THEN rc_parsed[RcSectionName]
    ELSE EmptyDict

\* C11: the config mapping rcfile got from get_config.  When the
\* host-specific section exists the keys are those of both sections and each
\* key has the host-specific value when that is truthy, otherwise the generic
\* section's value (None when the generic section lacks the key); when the
\* host-specific section is absent the mapping is the generic section.
C11_HostOverGeneric ==
    RcMerged =>
        IF RcHostSectionName \in DOMAIN rc_parsed
        THEN LET host == rc_parsed[RcHostSectionName]
             IN  /\ DOMAIN rc_out.config = DOMAIN RcGenericItems \cup DOMAIN host
                 /\ \A k \in DOMAIN rc_out.config :
                       rc_out.config[k] =
                          IF k \in DOMAIN host /\ Truthy(host[k]) THEN host[k]
                          ELSE Get(RcGenericItems, k)
        ELSE rc_out.config = RcGenericItems

\* C11's case: both sections exist, they give one key different truthy
\* values and the host-specific one is in the result, beside a key that only
\* the generic section has.
C11_Witness ==
    /\ RcMerged
    /\ RcSectionName \in DOMAIN rc_parsed
    /\ RcHostSectionName \in DOMAIN rc_parsed
    /\ \E k \in DOMAIN rc_parsed[RcHostSectionName] \cap DOMAIN RcGenericItems :
          /\ Truthy(rc_parsed[RcHostSectionName][k])
          /\ Truthy(RcGenericItems[k])
          /\ rc_parsed[RcHostSectionName][k] # RcGenericItems[k]
          /\ rc_out.config[k] = rc_parsed[RcHostSectionName][k]
    /\ \E k \in DOMAIN RcGenericItems : k \notin DOMAIN rc_parsed[RcHostSectionName]

\* Some source contributes a key: args, the selected config section(s) or a
\* prefixed environment variable.
RcSomeKey ==
    \/ DOMAIN rc_args # {}
    \/ DOMAIN get_config(rc_parsed, RcSectionName) # {}
    \/ \E n \in DOMAIN rc_osenv : StartsWith(n, EnvPrefix(Appname))

\* C12 as stated: when rcfile has ended, it has raised IOError exactly when
\* no source contributes a key, and with a key from any source it has
\* returned a non-empty mapping.
C12_NotFoundExactlyWhenEmpty ==
    (rc_pc = "done" /\ rc_op = "rcfile") =>
        /\ rc_out.kind = "IOError" <=> ~RcSomeKey
        /\ RcSomeKey => (rc_out.kind = "return" /\ DOMAIN rc_out.value # {})

\* The variables get_environment selects, and the key C13 gives a variable:
\* the name without its leading prefix, lower-cased.
RcPrefixedNames ==
    {n \in DOMAIN rc_osenv : StartsWith(n, EnvPrefix(Appname))}

LeadingPrefixRemoved(n) ==
    Lower(SubSeq(n, Len(EnvPrefix(Appname)) + 1, Len(n)))

\* C13 as stated: the environment mapping has one entry for each variable
\* whose name starts with APPNAME_ and no other; a variable's key is its name
\* with the leading prefix removed, lower-cased, and its value is unchanged.
C13_OneEntryPerPrefixedVariable ==
    RcMerged =>
        /\ DOMAIN rc_out.environ = {LeadingPrefixRemoved(n) : n \in RcPrefixedNames}
        /\ Cardinality(DOMAIN rc_out.environ) = Cardinality(RcPrefixedNames)
        /\ \A n \in RcPrefixedNames :
              rc_out.environ[LeadingPrefixRemoved(n)] = rc_osenv[n]

\* The positions, in the section list, of the sections that define rc_var.
RcDefiningSections ==
    {i \in 1..Len(rc_out.sections) : rc_var \in DOMAIN rc_parsed[rc_out.sections[i]]}

\* C19 as stated: find_in_sections raises ValueError when there are no
\* sections and KeyError when no section defines the variable; otherwise it
\* returns the first section, in section order, that defines the variable,
\* with that section's value.
C19_FirstDefiningSection ==
    (rc_pc = "done" /\ rc_op = "find_in_sections") =>
        IF rc_out.sections = <<>> THEN rc_out.kind = "ValueError"
        ELSE IF RcDefiningSections = {} THEN rc_out.kind = "KeyError"
        ELSE LET i == CHOOSE j \in RcDefiningSections :
                         \A l \in RcDefiningSections : j <= l
             IN  /\ rc_out.kind = "return"
                 /\ rc_out.section = rc_out.sections[i]
                 /\ rc_out.value = rc_parsed[rc_out.sections[i]][rc_var]

(***************************************************************************)
(* Claims about the config files, checked under SpecConfigFiles.           *)
(***************************************************************************)
\* The eight conventional locations, in the order of C14.
ConventionalFiles ==
    << <<"/", "etc", "/", "p", "/", "config">>,
       <<"/", "etc", "/", "p", "rc">>,
       <<"/", "home", "/", ".", "config", "/", "p", "/", "config">>,
       <<"/", "home", "/", ".", "config", "/", "p">>,
       <<"/", "home", "/", ".", "p", "/", "config">>,
       <<"/", "home", "/", ".", "p", "rc">>,
       <<"p", "rc">>,
       <<".", "p", "rc">> >>

\* A config file and a path folder were both given.
CfBothGiven ==
    /\ cf_pc = "done"
    /\ cf_in.config_file = Str(ConfigArg)
    /\ cf_in.additional_search_path = Str(PathArg)

\* C14 as stated: with a path folder and a config file given, the files are
\* read in the order: the eight conventional locations, apprc and .apprc of
\* the path folder, the config file; so every option the config file sets
\* has the config file's value in the result.
C14_ConfigFileReadLast ==
    CfBothGiven =>
        /\ cf_out.files = ConventionalFiles
                          \o << <<"/", "d", "/", "p", "rc">>,
                                <<"/", "d", "/", ".", "p", "rc">> >>
                          \o << ConfigArg >>
        /\ ConfigArg \in DOMAIN cf_in.disk =>
              \A k \in DOMAIN cf_in.disk[ConfigArg][GenericSection] :
                  cf_out.value[k] = cf_in.disk[ConfigArg][GenericSection][k]

(***************************************************************************)
(* Claims about the exceptions of the image operations, apply_mask_4d,     *)
(* union_mask and the image load_mask returns, checked under SpecMask.     *)
(***************************************************************************)
\* C15 as stated: when load_mask, apply_mask, apply_mask_4d or union_mask
\* raises, the caller receives the exception that first went wrong, the
\* same type with the same message: no other exception is raised in its
\* place.
C15_ReRaisedUnchanged ==
    (/\ mk_pc = "done"
     /\ mk_op \in {"load_mask", "apply_mask", "apply_mask_4d", "union_mask"}
     /\ mk_out.kind # "return")
        => (mk_out.kind = mk_out.cause /\ ~mk_out.wrapped)

\* The raw values make a valid mask: one distinct value, or two with zero.
ValidMaskValues(image) ==
    \/ Cardinality(DistinctValues(image)) = 1
    \/ Cardinality(DistinctValues(image)) = 2 /\ 0 \in DistinctValues(image)

\* The positions of the non-zero voxels of an image, in row-major order.
NonZeroPositions(image) == {p \in 1..Len(image.data) : image.data[p] # 0}

CompatibleList ==
    /\ mk_imgs # <<>>
    /\ \A i \in 1..Len(mk_imgs) :
          mk_imgs[i].exists /\ mk_imgs[i].shape = mk_imgs[1].shape

\* C18 as stated: for a list of compatible volumes union_mask returns, and
\* the volume it returns is true at a voxel exactly when some volume of the
\* list is non-zero there, also when the sum of the voxel's values leaves
\* the voxel type's range or when values are negative.
C18_UnionOfNonZero ==
    (MkDone("union_mask") /\ CompatibleList) =>
        /\ mk_out.kind = "return"
        /\ \A p \in 1..Len(mk_imgs[1].data) :
              mk_out.data[p] <=> \E i \in 1..Len(mk_imgs) : mk_imgs[i].data[p] # 0

C17_NoRetry ==
    /\ Cardinality(CdCalls("condor_qsub")) <= 1
    /\ Cardinality(CdCalls("direct")) <= 1
    /\ \A d \in CdCalls("direct") :
          \E q \in CdCalls("condor_qsub") : q < d /\ ~cd_log[q].result.raised

\* C17's case: the submission ended with a non-zero exit status, the direct
\* execution that followed it failed too, and condor_call has ended.
C17_Witness ==
    /\ cd_pc = "done"
    /\ Len(cd_log) = 3
    /\ cd_log[2].call = "condor_qsub" /\ cd_log[2].result.status # 0
    /\ cd_log[3].call = "direct" /\ cd_log[3].result.status # 0
    /\ ~cd_log[3].result.raised

(***************************************************************************)
(* Claims about the strip loop of rcfile, checked under SpecRc.            *)
(***************************************************************************)
\* A call of rcfile with strip_dashes=True, from its start to its end.
RcStripCall ==
    /\ rc_op = "rcfile" /\ rc_strip
    /\ rc_pc = "start" /\ rc_pc' = "done"

\* C21 as stated: a call with strip_dashes=True gets through the strip loop
\* (no exception leaves it), and afterwards args has, for every key it had,
\* the key without its leading '-' characters mapped to that key's value, and
\* no key that starts with '-'; the settings the call returns have these keys
\* too, with the args value where that is truthy.
C21_EveryKeyStrippedOnce ==
    [][RcStripCall =>
          /\ rc_out'.kind # "RuntimeError"
          /\ DOMAIN rc_args' = {LStripDash(k) : k \in DOMAIN rc_args}
          /\ \A k \in DOMAIN rc_args : rc_args'[LStripDash(k)] = rc_args[k]
          /\ \A k \in DOMAIN rc_args' : ~StartsWith(k, <<"-">>)
          /\ rc_out'.kind = "return" =>
                \A k \in DOMAIN rc_args :
                    /\ LStripDash(k) \in DOMAIN rc_out'.value
                    /\ Truthy(rc_args[k]) =>
                          rc_out'.value[LStripDash(k)] = rc_args[k]]_vars

(***************************************************************************)
(* Claims about merge, checked under SpecMerge.                            *)
(***************************************************************************)
MgKeys == DOMAIN mg_in.dict_1 \cup DOMAIN mg_in.dict_2

\* What merge computes for a key: dict_1's value when truthy, otherwise
\* dict_2.get(key).
MgValue(k) == PyOr(Get(mg_in.dict_1, k), Get(mg_in.dict_2, k))

\* No two keys of the arguments are the same string.
MgKeysStayDistinct ==
    \A k1, k2 \in MgKeys : py_str(k1) = py_str(k2) => k1 = k2

ProbeRaised == cd_log # <<>> /\ cd_log[1].result.raised

\* Every submission call comes after a condor_status call.
ProbeBeforeSubmission ==
    \A q \in CdCalls("condor_qsub") : \E p \in CdCalls("condor_status") : p < q

\* C23 as stated: the probe runs before the submission command; when
\* condor_call has ended, the submission command was left out only if the
\* probe raised, whatever exit status the probe returned otherwise; and the
\* probe's exception is what leaves condor_call.
C23_SubmittedUnlessProbeRaised ==
    /\ ProbeBeforeSubmission
    /\ cd_pc = "done" =>
          /\ CdCalls("condor_qsub") = {} <=> ProbeRaised
          /\ ProbeRaised => (cd_out.kind = "OSError" /\ Len(cd_log) = 1)

\* C23 as amended: the probe runs before the submission command; when
\* condor_call has ended, the submission command was left out exactly when
\* the probe raised or cmd has no word.  The probe's exit status plays no
\* part.  When the probe raised, its exception leaves condor_call and
\* nothing else was called; when cmd has no word, IndexError leaves
\* condor_call after the probe.
C23_SubmittedUnlessProbeRaisedOrNoWord ==
    /\ ProbeBeforeSubmission
    /\ cd_pc = "done" =>
          /\ CdCalls("condor_qsub") = {} <=> (ProbeRaised \/ cd_env.cmd = <<>>)
          /\ ProbeRaised => (cd_out.kind = "OSError" /\ Len(cd_log) = 1)
          /\ (~ProbeRaised /\ cd_env.cmd = <<>>) =>
                (cd_out.kind = "IndexError" /\ Len(cd_log) = 1)

\* C23's case: the probe returned a non-zero exit status and the submission
\* command was issued after it.
C23_Witness ==
    /\ cd_pc = "done"
    /\ Len(cd_log) >= 2
    /\ cd_log[1].call = "condor_status"
    /\ ~cd_log[1].result.raised /\ cd_log[1].result.status # 0
    /\ cd_log[2].call = "condor_qsub"

=============================================================================
